---- MODULE Spec2Model ----
(***************************************************************************)
(* Model of baxter_writer.py: the BaxterWriter trajectory pipeline         *)
(* (spatial mapping, sequential IK with warm start, iLQR refinement set-up, *)
(* basis-parameter fitting) run by the three batch builders.               *)
(*                                                                         *)
(* Units.  Floating point values are modelled by exact integers:           *)
(*   planar (character) coordinates   1e-2                                 *)
(*   task-space coordinates           1e-4 m                               *)
(*   joint angles                     1e-5 rad                             *)
(* The kinematic adapter, the optimal-control solver and the function      *)
(* approximator are external collaborators: their results are abstracted   *)
(* (nondeterministic choice, or a tagged value), their calls are recorded. *)
(***************************************************************************)
EXTENDS Integers, Sequences, FiniteSets, TLC

VARIABLES
    mode,               \* which batch builder runs: "ik", "ilqr" or "fa"
    pc,                 \* position of the builder
    c,                  \* current key of data (for c in data.keys())
    cnt,                \* number of samples taken from data so far
    d,                  \* current flattened sample (for d in data[c])
    tmp_char_traj,      \* builder local
    tmp_spatial_traj,   \* builder local / spatial_traj argument
    idx,                \* derive_ik_trajectory: loop index
    q_seed,             \* derive_ik_trajectory: warm-start seed
    q_array,            \* derive_ik_trajectory: accepted solutions
    ik_log,             \* calls made to robot_dynamics.inverse_kinematics
    printed,            \* lines printed by derive_ik_trajectory
    lqr,                \* lqr_traj_ctrl: the solver built by derive_ilqr_trajectory
    u_array_init,       \* derive_ilqr_trajectory: initial control sequence
    synth_log,          \* calls made to lqr_traj_ctrl.synthesize_trajectory
    tmp_q_array,        \* builder local (tmp_q_array / tmp_jnt_traj)
    tmp_fa_parms,       \* builder local of build_fa_for_joint_trajs
    res_data,           \* builder local: results per key
    returned,           \* what the caller of the builder receives
    error,              \* exception raised, "none" if none
    seed_pos,           \* BaxterWriter.seed_pos
    seed_pose           \* BaxterWriter.seed_pose

vars == <<mode, pc, c, cnt, d, tmp_char_traj, tmp_spatial_traj, idx, q_seed,
          q_array, ik_log, printed, lqr, u_array_init, synth_log, tmp_q_array,
          tmp_fa_parms, res_data, returned, error, seed_pos, seed_pose>>

----------------------------------------------------------------------------
(* Bounds of the model *)

MaxPts == 3

MaxBatch == 2

(* Program constants *)

DOF == 7

K == 20

HorizonT == 100

InvDt == 100

block_center == <<8440, -3570, 2570>>

scale == 900 \div (150 + 150)

InitSeedPos == <<230, -77274, 95529, 153091, -91924, 55914, -9664>>

----------------------------------------------------------------------------
(* numpy array helpers; a matrix is a sequence of rows *)

Zeros(n) == [j \in 1..n |-> 0]

\* ndarray.flatten() of a 2D array: row-major
Flatten(M) ==
    IF M = <<>> THEN <<>>
    ELSE LET cols == Len(M[1])
         IN [k \in 1..(Len(M) * cols) |-> M[((k - 1) \div cols) + 1][((k - 1) % cols) + 1]]

\* ndarray.T of a 2D array with ncols columns
Transpose(M, ncols) == [j \in 1..ncols |-> [i \in 1..Len(M) |-> M[i][j]]]

\* np.reshape(flat, (rows, -1)) is defined when the size divides
ReshapeOK(flat, rows) == Len(flat) % rows = 0

Reshape(flat, rows) ==
    LET cols == Len(flat) \div rows
    IN [r \in 1..rows |-> [k \in 1..cols |-> flat[(r - 1) * cols + k]]]

\* np.diff(M, axis=0) / dt for rows of DOF entries
DiffOverDt(M) ==
    [i \in 1..(Len(M) - 1) |-> [j \in 1..DOF |-> (M[i + 1][j] - M[i][j]) * InvDt]]

RECURSIVE SumSeq(_)
SumSeq(s) == IF s = <<>> THEN 0 ELSE s[1] + SumSeq(Tail(s))

----------------------------------------------------------------------------
(* External collaborators *)

None == <<>>

\* robot_dynamics.inverse_kinematics when it succeeds: a configuration
\* determined by the target position
IKSolution(pnt) == [j \in 1..DOF |-> pnt[1] - pnt[2] + j]

\* joint configurations of recorded joint trajectories
Config(n) == [j \in 1..DOF |-> n * 100 + j]

\* robot_dynamics.forward_position_kinematics: position (3) + orientation (4)
forward_position_kinematics(q) ==
    <<q[1] + q[2], q[2] + q[3], q[3] + q[4], q[4] - q[5], q[5] - q[6], q[6] - q[7], q[7] - q[1]>>

\* fa.fit(z, q_traj): K parameters, tagged by the approximator and the data
Linspace(n) == [i \in 1..n |-> IF n = 1 THEN 0 ELSE ((i - 1) * 100) \div (n - 1)]

FitParms(fa, z, q_traj) ==
    [k \in 1..K |-> fa * 100000 + k * 1000 + ((SumSeq(q_traj) + SumSeq(z)) % 1000)]

\* lqr_traj_ctrl.synthesize_trajectory: a state trajectory of 2*DOF columns,
\* one row per stage of the solver's horizon
SynTraj(T, x_init) ==
    [t \in 1..T |-> [j \in 1..(2 * DOF) |-> IF j <= DOF THEN x_init[j] + (t - 1) ELSE 0]]

----------------------------------------------------------------------------
(* Input data *)

Chars == {1, 2}

\* a flattened character sample of length L: x coordinates, y coordinates and
\* a trailing marker; an even L leaves a payload that does not split in two
CharSample(L) ==
    LET n == (L - 1) \div 2
    IN [i \in 1..L |-> IF i <= n THEN 10 * i
                       ELSE IF i <= 2 * n THEN 5 - 10 * (i - n)
                       ELSE 99]

CharData == {CharSample(L) : L \in 0..(2 * MaxPts + 1)}


\* a flattened joint trajectory, as the builders store it
JointTraj(n, s) == [i \in 1..n |-> Config(1 + ((i + s) % 2))]

----------------------------------------------------------------------------
(* BaxterWriter methods *)

\* the block center added to x and y only
generate_spatial_trajectory_flat(char_traj) ==
    [i \in 1..Len(char_traj) |-> <<char_traj[i][1] * scale + block_center[1],
                                   char_traj[i][2] * scale + block_center[2], 0>>]

generate_spatial_trajectory(char_traj) ==
    LET zeros    == [i \in 1..Len(char_traj) |-> <<0, 0, 0>>]
        assigned == [i \in 1..Len(char_traj) |->
                        <<char_traj[i][1] * scale, char_traj[i][2] * scale, zeros[i][3]>>]
    IN [i \in 1..Len(char_traj) |-> [k \in 1..3 |-> assigned[i][k] + block_center[k]]]

\* q_seed = self.seed_pos
StartSeed(self_seed_pos) == self_seed_pos

\* q_seed = q outside the else branch
SeedAfterSolve_unguarded(seed, q) == q

\* if q is None: keep the seed, else: q_seed = q
SeedAfterSolve(seed, q) == IF q = None THEN seed ELSE q

\* q_array.append(q) outside the else branch
ArrayAfterSolve_unguarded(arr, q) == Append(arr, q)

\* else: q_array.append(q)
ArrayAfterSolve(arr, q) == IF q = None THEN arr ELSE Append(arr, q)

\* the step reported one-based
PrintedAfterSolve_onebased(out, i, pnt, q) ==
    IF q = None THEN Append(out, [step |-> i + 1, pos |-> pnt]) ELSE out

\* if q is None: print 'Failed to solve IK at step {0} for desired position {1}.'
PrintedAfterSolve(out, i, pnt, q) ==
    IF q = None THEN Append(out, [step |-> i, pos |-> pnt]) ELSE out

\* self.seed_pos = q in place of q_seed = q
WriterSeedAfterSolve_stored(self_seed_pos, q) == IF q = None THEN self_seed_pos ELSE q

\* the loop body assigns the local q_seed only; self.seed_pos is not written
WriterSeedAfterSolve(self_seed_pos, q) == self_seed_pos

\* u_array_init: finite differences of the IK path, initial velocity zero
InitControls(q_ik) == DiffOverDt(<<Zeros(DOF)>> \o DiffOverDt(q_ik))

\* T of build_ilqr_general_solver(cost_func=traj_cost, n_dims=7, T=100)
SolverHorizon(spatial_traj) == HorizonT

derive_fa_parms_from_jnt_traj(q) ==
    LET z    == Linspace(Len(q))
        cols == Transpose(q, DOF)
    IN [j \in 1..DOF |-> FitParms(j, z, cols[j])]

\* zip(fa_parms, self.func_approxs) of derive_jnt_traj_from_fa_parms
EvalPairs(fa_parms) ==
    [j \in 1..Len(fa_parms) |-> [fa |-> j, parm |-> fa_parms[j]]]

----------------------------------------------------------------------------
(* Batch builders *)

\* np.reshape(d[:-1], (2, -1)).T
Payload(sample) == SubSeq(sample, 1, Len(sample) - 1)

CharTraj(sample) == Transpose(Reshape(Payload(sample), 2), Len(Payload(sample)) \div 2)

\* np.array([-tmp_char_traj[:, 1], -tmp_char_traj[:, 0]]).T
RotateChar(t) == [i \in 1..Len(t) |-> <<0 - t[i][2], 0 - t[i][1]>>]

\* flattened without the transposition
StoreLayout_timemajor(q) == Flatten(q)

\* np.array(tmp_q_array).T.flatten()
StoreLayout(q) == Flatten(Transpose(q, DOF))

\* np.reshape(flat, (7, -1)).T
ReadBack(flat) == Transpose(Reshape(flat, DOF), Len(flat) \div DOF)

\* np.reshape(fa_data[c][idx], (7, -1))
ReadParms(flat) == Reshape(flat, DOF)

JointData ==
    LET good == {StoreLayout(JointTraj(n, s)) : n \in 1..MaxPts, s \in {0, 1}}
    IN good \cup {SubSeq(f, 1, Len(f) - 1) : f \in good}

NoSolver == [built |-> FALSE, T |-> 0, n_dims |-> 0]

Init ==
    /\ mode \in {"ik", "ilqr", "fa"}
    /\ pc = "next"
    /\ c = 1
    /\ cnt = 0
    /\ d = <<>>
    /\ tmp_char_traj = <<>>
    /\ tmp_spatial_traj = <<>>
    /\ idx = 0
    /\ q_seed = None
    /\ q_array = <<>>
    /\ ik_log = <<>>
    /\ printed = <<>>
    /\ lqr = NoSolver
    /\ u_array_init = <<>>
    /\ synth_log = <<>>
    /\ tmp_q_array = <<>>
    /\ tmp_fa_parms = <<>>
    /\ res_data = [ch \in Chars |-> <<>>]
    /\ returned = [has |-> FALSE, value |-> [ch \in Chars |-> <<>>]]
    /\ error = "none"
    /\ seed_pos = InitSeedPos
    /\ seed_pose = forward_position_kinematics(InitSeedPos)

writer == <<seed_pos, seed_pose>>
ikvars == <<idx, q_seed, q_array, ik_log, printed>>
lqrvars == <<lqr, u_array_init, synth_log>>
loopvars == <<mode, c, cnt, d>>
outvars == <<res_data, returned, error>>

\* an exception leaves the builder: nothing is returned
Raise(kind) ==
    /\ pc' = "raised"
    /\ error' = kind
    /\ UNCHANGED <<res_data, returned>>

\* for c in data.keys(): move to the next key
NextKey ==
    /\ pc = "next"
    /\ c + 1 \in Chars
    /\ c' = c + 1
    /\ UNCHANGED <<mode, pc, cnt, d, tmp_char_traj, tmp_spatial_traj, ikvars, lqrvars,
                   tmp_q_array, tmp_fa_parms, outvars, writer>>

\* for d in data[c]: take the next sample
NextSample ==
    /\ pc = "next"
    /\ cnt < MaxBatch
    /\ \E s \in (IF mode = "fa" THEN JointData ELSE CharData) : d' = s
    /\ cnt' = cnt + 1
    /\ pc' = IF mode = "fa" THEN "fit" ELSE "map"
    /\ tmp_char_traj' = <<>>
    /\ tmp_spatial_traj' = <<>>
    /\ idx' = 0
    /\ q_array' = <<>>
    /\ ik_log' = <<>>
    /\ printed' = <<>>
    /\ lqr' = NoSolver
    /\ u_array_init' = <<>>
    /\ synth_log' = <<>>
    /\ tmp_q_array' = <<>>
    /\ tmp_fa_parms' = <<>>
    /\ UNCHANGED <<mode, c, q_seed, outvars, writer>>

\* reshape, rotate and generate_spatial_trajectory
MapSample ==
    /\ pc = "map"
    /\ IF ReshapeOK(Payload(d), 2)
       THEN /\ tmp_char_traj' = RotateChar(CharTraj(d))
            /\ tmp_spatial_traj' = generate_spatial_trajectory(RotateChar(CharTraj(d)))
            /\ pc' = IF mode = "ilqr" THEN "build" ELSE "ik"
            /\ UNCHANGED outvars
       ELSE /\ Raise("ValueError")
            /\ UNCHANGED <<tmp_char_traj, tmp_spatial_traj>>
    /\ UNCHANGED <<loopvars, ikvars, lqrvars, tmp_q_array, tmp_fa_parms, writer>>

\* derive_ilqr_trajectory: PyLQR_TrajCtrl(...), build_ilqr_general_solver(...)
BuildSolver ==
    /\ pc = "build"
    /\ lqr' = [built |-> TRUE, T |-> SolverHorizon(tmp_spatial_traj), n_dims |-> DOF]
    /\ pc' = "ik"
    /\ UNCHANGED <<loopvars, tmp_char_traj, tmp_spatial_traj, ikvars, u_array_init,
                   synth_log, tmp_q_array, tmp_fa_parms, outvars, writer>>

\* derive_ik_trajectory: q_seed = self.seed_pos; q_array = []
IKBegin ==
    /\ pc = "ik"
    /\ q_seed' = StartSeed(seed_pos)
    /\ q_array' = <<>>
    /\ idx' = 0
    /\ pc' = "ik_loop"
    /\ UNCHANGED <<loopvars, tmp_char_traj, tmp_spatial_traj, ik_log, printed, lqrvars,
                   tmp_q_array, tmp_fa_parms, outvars, writer>>

\* one iteration of for idx, pnt in enumerate(spatial_traj)
IKStep ==
    /\ pc = "ik_loop"
    /\ idx < Len(tmp_spatial_traj)
    /\ \E q \in {IKSolution(tmp_spatial_traj[idx + 1]), None} :
        LET pnt == tmp_spatial_traj[idx + 1]
        IN /\ ik_log' = Append(ik_log, [idx |-> idx, pnt |-> pnt,
                                        orientation |-> SubSeq(seed_pose, 4, 7),
                                        seed |-> q_seed, q |-> q])
           /\ printed' = PrintedAfterSolve(printed, idx, pnt, q)
           /\ q_seed' = SeedAfterSolve(q_seed, q)
           /\ q_array' = ArrayAfterSolve(q_array, q)
           /\ seed_pos' = WriterSeedAfterSolve(seed_pos, q)
    /\ idx' = idx + 1
    /\ UNCHANGED <<pc, loopvars, tmp_char_traj, tmp_spatial_traj, lqrvars, tmp_q_array,
                   tmp_fa_parms, outvars, seed_pose>>

\* return np.array(q_array); build_ik_joint_traj_for_chars stores it
IKReturn ==
    /\ pc = "ik_loop"
    /\ idx = Len(tmp_spatial_traj)
    /\ tmp_q_array' = q_array
    /\ IF mode = "ik"
       THEN /\ res_data' = [res_data EXCEPT ![c] = Append(@, StoreLayout(q_array))]
            /\ pc' = "next"
       ELSE /\ res_data' = res_data
            /\ pc' = "guess"
    /\ UNCHANGED <<loopvars, tmp_char_traj, tmp_spatial_traj, ikvars, lqrvars,
                   tmp_fa_parms, returned, error, writer>>

\* x0 = q_ik[0]; finite differences for the initial controls
InitGuess ==
    /\ pc = "guess"
    /\ IF tmp_q_array = <<>>
       THEN /\ Raise("IndexError")
            /\ UNCHANGED u_array_init
       ELSE /\ u_array_init' = InitControls(tmp_q_array)
            /\ pc' = "synth"
            /\ UNCHANGED outvars
    /\ UNCHANGED <<loopvars, tmp_char_traj, tmp_spatial_traj, ikvars, lqr, synth_log,
                   tmp_q_array, tmp_fa_parms, writer>>

SynthCall == [T |-> lqr.T, x0 |-> tmp_q_array[1], n_u |-> Len(u_array_init)]

\* syn_traj = synthesize_trajectory(x0, u_array_init, n_itrs=25); return syn_traj[:, 0:7]
SynthReturn ==
    /\ pc = "synth"
    /\ synth_log' = Append(synth_log, SynthCall)
    /\ LET syn_traj == SynTraj(lqr.T, tmp_q_array[1] \o Zeros(DOF))
           refined  == [t \in 1..Len(syn_traj) |-> SubSeq(syn_traj[t], 1, DOF)]
       IN /\ tmp_q_array' = refined
          /\ res_data' = [res_data EXCEPT ![c] = Append(@, StoreLayout(refined))]
    /\ pc' = "next"
    /\ UNCHANGED <<loopvars, tmp_char_traj, tmp_spatial_traj, ikvars, lqr, u_array_init,
                   tmp_fa_parms, returned, error, writer>>

\* the solver, or traj_cost indexing spatial_traj[t], raises
SynthRaise ==
    /\ pc = "synth"
    /\ \/ lqr.T > Len(tmp_spatial_traj)
       \/ Len(u_array_init) # lqr.T - 1
    /\ synth_log' = Append(synth_log, SynthCall)
    /\ Raise("IndexError")
    /\ UNCHANGED <<loopvars, tmp_char_traj, tmp_spatial_traj, ikvars, lqr, u_array_init,
                   tmp_q_array, tmp_fa_parms, writer>>

\* build_fa_for_joint_trajs: reshape, fit, store
FitSample ==
    /\ pc = "fit"
    /\ IF ReshapeOK(d, DOF)
       THEN /\ tmp_q_array' = ReadBack(d)
            /\ tmp_fa_parms' = derive_fa_parms_from_jnt_traj(ReadBack(d))
            /\ res_data' = [res_data EXCEPT
                              ![c] = Append(@, Flatten(derive_fa_parms_from_jnt_traj(ReadBack(d))))]
            /\ pc' = "next"
            /\ UNCHANGED <<returned, error>>
       ELSE /\ Raise("ValueError")
            /\ UNCHANGED <<tmp_q_array, tmp_fa_parms>>
    /\ UNCHANGED <<loopvars, tmp_char_traj, tmp_spatial_traj, ikvars, lqrvars, writer>>

\* return res_data
Return ==
    /\ pc = "next"
    /\ c + 1 \notin Chars
    /\ returned' = [has |-> TRUE, value |-> res_data]
    /\ pc' = "done"
    /\ UNCHANGED <<loopvars, tmp_char_traj, tmp_spatial_traj, ikvars, lqrvars,
                   tmp_q_array, tmp_fa_parms, res_data, error, writer>>

Next ==
    \/ NextKey
    \/ NextSample
    \/ MapSample
    \/ BuildSolver
    \/ IKBegin
    \/ IKStep
    \/ IKReturn
    \/ InitGuess
    \/ SynthReturn
    \/ SynthRaise
    \/ FitSample
    \/ Return

Spec == Init /\ [][Next]_vars

----------------------------------------------------------------------------
(* Properties of derive_ik_trajectory *)

Failed(log) == SelectSeq(log, LAMBDA e : e.q = None)
Solved(log) == SelectSeq(log, LAMBDA e : e.q # None)

\* derive_ik_trajectory has returned for the current sample
IKReturned ==
    \/ pc \in {"guess", "synth"}
    \/ mode = "ik" /\ pc \in {"next", "done"} /\ cnt >= 1

\* the solution of the latest successful solve among the first n calls, or dflt
LastAccepted(log, n, dflt) ==
    LET ok == {k \in 1..n : log[k].q # None}
    IN IF ok = {} THEN dflt
       ELSE log[CHOOSE k \in ok : \A k2 \in ok : k2 <= k].q

\* C1: every target is attempted exactly once, in input order; the returned
\* trajectory is exactly the solutions of the successful solves, in order, so
\* its length is the number of targets minus the number of failed solves.
C1_AttemptOnceKeepSolved ==
    /\ Len(ik_log) = idx
    /\ idx <= Len(tmp_spatial_traj)
    /\ \A k \in 1..Len(ik_log) :
          ik_log[k].idx = k - 1 /\ ik_log[k].pnt = tmp_spatial_traj[k]
    /\ Len(q_array) = Len(ik_log) - Len(Failed(ik_log))
    /\ q_array = [k \in 1..Len(Solved(ik_log)) |-> Solved(ik_log)[k].q]
    /\ IKReturned =>
          /\ Len(ik_log) = Len(tmp_spatial_traj)
          /\ Len(q_array) = Len(tmp_spatial_traj) - Len(Failed(ik_log))
          /\ pc = "guess" \/ mode = "ik" => tmp_q_array = q_array

C1_Witness ==
    /\ mode = "ik" /\ pc = "next" /\ cnt >= 1
    /\ Len(tmp_spatial_traj) = 3
    /\ ik_log[1].q # None /\ ik_log[2].q = None /\ ik_log[3].q # None
    /\ Len(tmp_q_array) = 2

\* C2: the seed handed to the solve of target i is the solution of the latest
\* successful solve before i, or the configured seed when there is none; a
\* failed solve leaves the seed as it was.
C2_SeedIsLastAccepted ==
    /\ \A k \in 1..Len(ik_log) :
          ik_log[k].seed = LastAccepted(ik_log, k - 1, InitSeedPos)
    /\ pc = "ik_loop" => q_seed = LastAccepted(ik_log, Len(ik_log), InitSeedPos)

C2_Witness ==
    /\ Len(ik_log) = 3
    /\ ik_log[1].q # None /\ ik_log[2].q = None
    /\ ik_log[3].seed = ik_log[1].q
    /\ ik_log[3].q # None /\ ik_log[3].q # ik_log[1].q

\* C3: the indices reported as skipped are exactly the indices whose solve
\* failed, each with its target position, and a failed solve raises nothing.
C3_SkipsReported ==
    /\ {printed[i].step : i \in 1..Len(printed)} =
          {ik_log[k].idx : k \in {k2 \in 1..Len(ik_log) : ik_log[k2].q = None}}
    /\ printed = [i \in 1..Len(Failed(ik_log)) |->
                     [step |-> Failed(ik_log)[i].idx, pos |-> Failed(ik_log)[i].pnt]]
    /\ (pc = "ik_loop" \/ mode = "ik") /\ ik_log # <<>> => error = "none"

C3_Witness ==
    /\ mode = "ik" /\ pc = "next" /\ cnt >= 1
    /\ Len(ik_log) = 3
    /\ {printed[i].step : i \in 1..Len(printed)} = {0, 2}
    /\ Len(tmp_q_array) = 1

\* C10: derive_ik_trajectory leaves seed_pos and seed_pose as configured, so
\* the first solve of every trajectory of a batch is seeded with the
\* configured seed, whatever happened in earlier trajectories.
C10_WriterSeedKept ==
    /\ seed_pos = InitSeedPos
    /\ seed_pose = forward_position_kinematics(InitSeedPos)
    /\ ik_log # <<>> =>
          /\ ik_log[1].seed = InitSeedPos
          /\ ik_log[1].orientation = SubSeq(forward_position_kinematics(InitSeedPos), 4, 7)

C10_Witness ==
    /\ cnt = 2
    /\ \E ch \in Chars : res_data[ch] # <<>> /\ res_data[ch][1] # <<>>
    /\ ik_log # <<>>
    /\ ik_log[1].idx = 0

----------------------------------------------------------------------------
(* Properties of generate_spatial_trajectory *)

\* C4: point i of the spatial trajectory is (x*scale + cx, y*scale + cy, cz)
\* for the planar point (x, y) at index i: same length, same order, and the
\* z coordinate is the block center's.
C4_SpatialMapping ==
    /\ Len(tmp_spatial_traj) = Len(tmp_char_traj)
    /\ \A i \in 1..Len(tmp_char_traj) :
          tmp_spatial_traj[i] = <<tmp_char_traj[i][1] * scale + block_center[1],
                                  tmp_char_traj[i][2] * scale + block_center[2],
                                  block_center[3]>>

C4_Witness ==
    /\ d = CharSample(7)
    /\ tmp_char_traj = << <<5, -10>>, <<15, -20>>, <<25, -30>> >>
    /\ tmp_spatial_traj = << <<8455, -3600, 2570>>, <<8485, -3630, 2570>>,
                             <<8515, -3660, 2570>> >>

----------------------------------------------------------------------------
(* Properties of the flattened layouts *)

\* the key that received the latest result
LastKey == CHOOSE ch \in Chars :
              res_data[ch] # <<>> /\ \A ch2 \in Chars : ch2 > ch => res_data[ch2] = <<>>

LastStored == res_data[LastKey][Len(res_data[LastKey])]

JustStored == pc \in {"next", "done"} /\ cnt >= 1

Column(M, j) == [i \in 1..Len(M) |-> M[i][j]]

\* C9: a joint trajectory stored transposed-then-flattened and read back by
\* reshape (7, -1) and transpose is the trajectory that was stored; a parameter
\* set stored flattened and read back by reshape (7, -1) gives joint j the K
\* parameters fitted by approximator j to joint j's series, paired with
\* approximator j for evaluation.
C9_LayoutsAgree ==
    /\ JustStored /\ mode \in {"ik", "ilqr"} =>
          /\ ReshapeOK(LastStored, DOF)
          /\ ReadBack(LastStored) = tmp_q_array
          /\ Len(ReadBack(LastStored)) = Len(tmp_q_array)
    /\ JustStored /\ mode = "fa" =>
          /\ ReshapeOK(LastStored, DOF)
          /\ StoreLayout(tmp_q_array) = d
          /\ \A j \in 1..DOF :
                /\ Len(ReadParms(LastStored)[j]) = K
                /\ ReadParms(LastStored)[j] =
                      FitParms(j, Linspace(Len(tmp_q_array)), Column(tmp_q_array, j))
                /\ EvalPairs(ReadParms(LastStored))[j] =
                      [fa |-> j, parm |-> tmp_fa_parms[j]]

C9_Witness ==
    /\ JustStored /\ mode = "ik"
    /\ Len(tmp_q_array) = 3
    /\ tmp_q_array[1] # tmp_q_array[2]
    /\ LastStored[1] = tmp_q_array[1][1]
    /\ LastStored[2] = tmp_q_array[2][1]
    /\ LastStored[4] = tmp_q_array[1][2]

----------------------------------------------------------------------------
(* Statements the code does not satisfy *)

\* C5: the horizon handed to the solver is the number of points of the
\* spatial trajectory.
C5_HorizonIsPathLength ==
    lqr.built => lqr.T = Len(tmp_spatial_traj)

\* C6: when the IK seed step skipped a sample, the refiner does not crash on
\* an empty seed trajectory and does not call the solver with an initial
\* control sequence whose length disagrees with the horizon.
C6_ShortSeedHandled ==
    mode = "ilqr" /\ printed # <<>> =>
        /\ error # "IndexError"
        /\ \A i \in 1..Len(synth_log) : synth_log[i].n_u = synth_log[i].T - 1

\* a wrong-shaped or empty path
Malformed(sample) == ~ReshapeOK(Payload(sample), 2) \/ Payload(sample) = <<>>

\* C7: a malformed input trajectory ends in a structural-validation error
\* before any kinematic call or solver construction.
C7_MalformedFailsFast ==
    /\ mode # "fa"
    /\ Malformed(d)
    /\ pc = "raised" \/ (pc \in {"next", "done"} /\ cnt >= 1)
    => /\ error = "ValueError"
       /\ ik_log = <<>>
       /\ ~lqr.built

\* C8: an error raised while one trajectory is processed leaves the results
\* of the earlier trajectories available to the caller.
C8_EarlierResultsKept ==
    pc = "raised" /\ (\E ch \in Chars : res_data[ch] # <<>>) =>
        returned.has /\ returned.value = res_data

====
